---- MODULE Spec2Model ----
(***************************************************************************)
(* Model of src/Thermostat.py: the polling control loop of Thermostat.run  *)
(* (main thread) and the button callbacks _cycle_mode/_sp_up/_sp_down,     *)
(* which gpiozero runs on its callback thread.  The two threads share      *)
(* state_idx, setpoint_f and the two PWMLED channels without a lock, so    *)
(* each Python statement that touches them is one step of the model.       *)
(***************************************************************************)
EXTENDS Integers, Sequences, FiniteSets, TLC

\* ---- program constants ------------------------------------------------
SETPOINT_F_DEFAULT == 72
LCD_ALT_PERIOD == 2
UART_PERIOD == 30
Q == 1048576

OFF == "off"
HEAT == "heat"
COOL == "cool"
STATE_ORDER == <<OFF, HEAT, COOL>>

\* ---- bounds of the model ----------------------------------------------
\* time.time() at construction, in seconds (any value >= UART_PERIOD
\* behaves alike: both timers start at 0.0)
ClockStart == 100
\* the loop is followed for Horizon seconds after construction
Horizon == 3
\* the setpoint is followed from SETPOINT_F_DEFAULT up to MaxSpUp above it
MaxSpUp == 5

\* seconds between two clock reads of the loop (line 249)
TickAdvance == {1}

\* outcome of acquiring the optional devices in __init__ (lines 69-83):
\* <<display acquired, transport>>
DeviceConfigs == {<<TRUE, "open">>, <<FALSE, "absent">>}

\* bytes 3..5 of the sensor payload offered by the bus: 65.0002 F, 76.9997 F
\* and 77.0 F.  The high nibble of byte 3 belongs to the humidity field.
SensorPayloads == {<<133, 119, 120>>, <<133, 255, 255>>, <<134, 0, 0>>}
SensorFaults == {"ShortRead", "BusFault"}

VARIABLES
    state_idx,   \* self.state_idx, 0-based index into STATE_ORDER
    setpoint_f,  \* self.setpoint_f
    red,         \* heat channel: "Off", "SolidOn", "Fade" or "Held"
    blue,        \* cool channel
    lcd,         \* TRUE iff self.lcd is not None
    ser,         \* "absent" (self.ser is None), "open" or "closed"
    bus,         \* "open" or "closed"
    last_uart,   \* self._last_uart
    last_alt,    \* self._last_alt
    alt_flag,    \* self._alt_flag
    now,         \* the clock as last read by the loop (local now of run)
    temp_kind,   \* "unset", "nan" or "ok": what the local temp_f of run holds
    temp_f,      \* temp_f * 2^20 when temp_kind = "ok"
    pc,          \* position of the main thread in run
    exc,         \* exception propagating out of the while loop, or "none"
    cb,          \* position of the callback thread
    lcd_tx,      \* second line written to the display in this tick, << >> if none
    lcd_clear,   \* TRUE once cleanup has cleared the display
    uart_tx,     \* line put on the transport in this tick, << >> if none
    tick_ev,     \* a callback step ran since this tick's _apply_outputs began
    cb_ev        \* "none" outside _cycle_mode; inside it "clean" or "dirty":
                 \* whether the main thread wrote a channel since it began

vars == <<state_idx, setpoint_f, red, blue, lcd, ser, bus, last_uart, last_alt,
          alt_flag, now, temp_kind, temp_f, pc, exc, cb, lcd_tx, lcd_clear,
          uart_tx, tick_ev, cb_ev>>

shared == <<state_idx, setpoint_f>>
timers == <<last_uart, last_alt, alt_flag, now>>
devices == <<lcd, ser, bus>>
sample == <<temp_kind, temp_f>>
outputs == <<lcd_tx, lcd_clear, uart_tx>>

\* ---- pure helpers -----------------------------------------------------
state == STATE_ORDER[state_idx + 1]

\* tmp_raw of _aht20_read_celsius from payload bytes 3, 4, 5
TmpRaw(d) == ((d[1] % 16) * 65536 + d[2] * 256 + d[3]) % Q

\* temperature_c * 2^20
AhtCelsius(d) == TmpRaw(d) * 200 - 50 * Q

\* temp_f * 2^20 for temp_c * 2^20
ToFahrenheit(c) == (c * 9) \div 5 + 32 * Q

\* f"{temp_f:.1f}" as a number of tenths (round half to even)
Fmt1(t) ==
    LET n == t * 10
        q == n \div Q
        r == n % Q
    IN  IF 2 * r > Q \/ (2 * r = Q /\ q % 2 = 1) THEN q + 1 ELSE q

\* channel operations of the two actuators.  A channel is "Off", "SolidOn",
\* "Fade" (a background pulse is running) or "Held": its pulse was cancelled
\* and the output keeps whatever level the pulse had reached.
Stop_Keep(ch) == ch
Stop(ch) == IF ch = "Fade" THEN "Held" ELSE ch
SwitchOff(ch) == "Off"
SetFull(ch) == "SolidOn"
Pulse(ch) == "Fade"

On(ch) == ch \in {"SolidOn", "Fade"}

ApplyPcs == {"a181r", "a181b", "a183", "a184", "a185", "a189", "a190", "a191",
             "a196r", "a196b"}
RunningPcs == ApplyPcs \cup {"read", "clock", "lcd", "uart", "sleep"}
CleanupPcs == {"f266r", "f266b", "f267r", "f267b", "f268", "f273", "f278"}
LoopState == IF pc \in RunningPcs THEN "Running" ELSE "Stopping"

\* ---- initial state: after Thermostat.__init__ -------------------------
Init ==
    /\ state_idx = 0
    /\ setpoint_f = SETPOINT_F_DEFAULT
    /\ red = "Off"
    /\ blue = "Off"
    /\ \E c \in DeviceConfigs : lcd = c[1] /\ ser = c[2]
    /\ bus = "open"
    /\ last_uart = 0
    /\ last_alt = 0
    /\ alt_flag = FALSE
    /\ now = ClockStart
    /\ temp_kind = "unset"
    /\ temp_f = 0
    /\ pc = "read"
    /\ exc = "none"
    /\ cb = "idle"
    /\ lcd_tx = << >>
    /\ lcd_clear = FALSE
    /\ uart_tx = << >>
    /\ tick_ev = FALSE
    /\ cb_ev = "none"

\* ---- main thread: run -------------------------------------------------
\* bookkeeping shared by every step of the main thread that writes a channel
LoopWrites == cb_ev' = IF cb_ev = "none" THEN "none" ELSE "dirty"

\* ReadSensor without the isnan guard of line 245
ReadSensor_NoNanGuard ==
    /\ pc = "read"
    /\ \/ \E d \in SensorPayloads :
            /\ temp_kind' = "ok"
            /\ temp_f' = ToFahrenheit(AhtCelsius(d))
       \/ \E f \in SensorFaults :
            /\ temp_kind' = "nan"
            /\ temp_f' = 0
    /\ pc' = "a181r"
    /\ tick_ev' = FALSE
    /\ UNCHANGED <<shared, red, blue, devices, timers, exc, cb, outputs, cb_ev>>

\* lines 237-246: read the sensor, convert, and test isnan
ReadSensor ==
    /\ pc = "read"
    /\ \/ \E d \in SensorPayloads :
            /\ temp_kind' = "ok"
            /\ temp_f' = ToFahrenheit(AhtCelsius(d))
            /\ pc' = "a181r"
       \/ \E f \in SensorFaults :
            /\ temp_kind' = "nan"
            /\ temp_f' = 0
            /\ pc' = "clock"
    /\ tick_ev' = FALSE
    /\ UNCHANGED <<shared, red, blue, devices, timers, exc, cb, outputs, cb_ev>>

\* line 181, first statement: self.red.stop()
ApplyStopRed ==
    /\ pc = "a181r"
    /\ red' = Stop(red)
    /\ pc' = "a181b"
    /\ LoopWrites
    /\ UNCHANGED <<shared, blue, devices, timers, sample, exc, cb, outputs, tick_ev>>

\* ApplyStopBlue that does not cancel the cool channel's fade
ApplyStopBlue_Skip ==
    /\ pc = "a181b"
    /\ pc' = "a183"
    /\ LoopWrites
    /\ UNCHANGED <<shared, red, blue, devices, timers, sample, exc, cb, outputs,
                   tick_ev>>

\* line 181, second statement: self.blue.stop()
ApplyStopBlue ==
    /\ pc = "a181b"
    /\ blue' = Stop(blue)
    /\ pc' = "a183"
    /\ LoopWrites
    /\ UNCHANGED <<shared, red, devices, timers, sample, exc, cb, outputs, tick_ev>>

\* line 183: if self.state == HEAT
ApplyTestHeat ==
    /\ pc = "a183"
    /\ pc' = IF state = HEAT THEN "a184" ELSE "a189"
    /\ UNCHANGED <<shared, red, blue, devices, timers, sample, exc, cb, outputs,
                   tick_ev, cb_ev>>

\* line 184: self.blue.off()
ApplyHeatBlueOff ==
    /\ pc = "a184"
    /\ blue' = SwitchOff(blue)
    /\ pc' = "a185"
    /\ LoopWrites
    /\ UNCHANGED <<shared, red, devices, timers, sample, exc, cb, outputs, tick_ev>>

\* ApplyHeatRed with <= for the < of line 185
ApplyHeatRed_Le ==
    /\ pc = "a185"
    /\ red' = IF temp_f <= setpoint_f * Q THEN Pulse(red) ELSE SetFull(red)
    /\ pc' = "clock"
    /\ LoopWrites
    /\ UNCHANGED <<shared, blue, devices, timers, sample, exc, cb, outputs, tick_ev>>

\* lines 185-188: pulse red below the setpoint, else solid
ApplyHeatRed ==
    /\ pc = "a185"
    /\ red' = IF temp_f < setpoint_f * Q THEN Pulse(red) ELSE SetFull(red)
    /\ pc' = "clock"
    /\ LoopWrites
    /\ UNCHANGED <<shared, blue, devices, timers, sample, exc, cb, outputs, tick_ev>>

\* line 189: elif self.state == COOL
ApplyTestCool ==
    /\ pc = "a189"
    /\ pc' = IF state = COOL THEN "a190" ELSE "a196r"
    /\ UNCHANGED <<shared, red, blue, devices, timers, sample, exc, cb, outputs,
                   tick_ev, cb_ev>>

\* ApplyCoolRedOff that leaves the heat channel as it finds it
ApplyCoolRedOff_Skip ==
    /\ pc = "a190"
    /\ pc' = "a191"
    /\ LoopWrites
    /\ UNCHANGED <<shared, red, blue, devices, timers, sample, exc, cb, outputs,
                   tick_ev>>

\* line 190: self.red.off()
ApplyCoolRedOff ==
    /\ pc = "a190"
    /\ red' = SwitchOff(red)
    /\ pc' = "a191"
    /\ LoopWrites
    /\ UNCHANGED <<shared, blue, devices, timers, sample, exc, cb, outputs, tick_ev>>

\* ApplyCoolBlue with >= for the > of line 191
ApplyCoolBlue_Ge ==
    /\ pc = "a191"
    /\ blue' = IF temp_f >= setpoint_f * Q THEN Pulse(blue) ELSE SetFull(blue)
    /\ pc' = "clock"
    /\ LoopWrites
    /\ UNCHANGED <<shared, red, devices, timers, sample, exc, cb, outputs, tick_ev>>

\* lines 191-194: pulse blue above the setpoint, else solid
ApplyCoolBlue ==
    /\ pc = "a191"
    /\ blue' = IF temp_f > setpoint_f * Q THEN Pulse(blue) ELSE SetFull(blue)
    /\ pc' = "clock"
    /\ LoopWrites
    /\ UNCHANGED <<shared, red, devices, timers, sample, exc, cb, outputs, tick_ev>>

\* line 196, first statement: self.red.off()
ApplyOffRed ==
    /\ pc = "a196r"
    /\ red' = SwitchOff(red)
    /\ pc' = "a196b"
    /\ LoopWrites
    /\ UNCHANGED <<shared, blue, devices, timers, sample, exc, cb, outputs, tick_ev>>

\* ApplyOffBlue that only cancels the fade instead of switching blue off
ApplyOffBlue_StopOnly ==
    /\ pc = "a196b"
    /\ blue' = Stop(blue)
    /\ pc' = "clock"
    /\ LoopWrites
    /\ UNCHANGED <<shared, red, devices, timers, sample, exc, cb, outputs, tick_ev>>

\* line 196, second statement: self.blue.off()
ApplyOffBlue ==
    /\ pc = "a196b"
    /\ blue' = SwitchOff(blue)
    /\ pc' = "clock"
    /\ LoopWrites
    /\ UNCHANGED <<shared, red, devices, timers, sample, exc, cb, outputs, tick_ev>>

\* AltCheck with > for the >= of line 250
AltCheck_Gt ==
    /\ pc = "clock"
    /\ \E d \in TickAdvance :
        /\ now + d <= ClockStart + Horizon
        /\ now' = now + d
    /\ IF now' - last_alt > LCD_ALT_PERIOD
       THEN alt_flag' = ~alt_flag /\ last_alt' = now'
       ELSE UNCHANGED <<alt_flag, last_alt>>
    /\ pc' = "lcd"
    /\ tick_ev' = FALSE
    /\ UNCHANGED <<shared, red, blue, devices, last_uart, sample, exc, cb, outputs,
                   cb_ev>>

\* lines 249-252: read the clock once, flip the display phase when due
AltCheck ==
    /\ pc = "clock"
    /\ \E d \in TickAdvance :
        /\ now + d <= ClockStart + Horizon
        /\ now' = now + d
    /\ IF now' - last_alt >= LCD_ALT_PERIOD
       THEN alt_flag' = ~alt_flag /\ last_alt' = now'
       ELSE UNCHANGED <<alt_flag, last_alt>>
    /\ pc' = "lcd"
    /\ tick_ev' = FALSE
    /\ UNCHANGED <<shared, red, blue, devices, last_uart, sample, exc, cb, outputs,
                   cb_ev>>

\* second display line built by _update_lcd, lines 212-218
LcdLine2 ==
    IF ~alt_flag THEN <<"T", Fmt1(temp_f)>> ELSE <<state, setpoint_f>>

\* UpdateLcd without the isnan test of line 253
UpdateLcd_NoNanTest ==
    /\ pc = "lcd"
    /\ IF ~lcd
       THEN /\ pc' = "uart"
            /\ UNCHANGED <<lcd_tx, exc>>
       ELSE \/ /\ lcd_tx' = LcdLine2
               /\ pc' = "uart"
               /\ UNCHANGED exc
            \/ /\ exc' = "Exception"
               /\ pc' = "f266r"
               /\ UNCHANGED lcd_tx
    /\ UNCHANGED <<shared, red, blue, devices, timers, sample, cb, lcd_clear,
                   uart_tx, tick_ev, cb_ev>>

\* lines 253-254 with _update_lcd and _lcd_write: nothing in them catches a
\* failing display write, so it leaves the while loop through finally
UpdateLcd ==
    /\ pc = "lcd"
    /\ IF temp_kind = "nan" \/ ~lcd
       THEN /\ pc' = "uart"
            /\ UNCHANGED <<lcd_tx, exc>>
       ELSE \/ /\ lcd_tx' = LcdLine2
               /\ pc' = "uart"
               /\ UNCHANGED exc
            \/ /\ exc' = "Exception"
               /\ pc' = "f266r"
               /\ UNCHANGED lcd_tx
    /\ UNCHANGED <<shared, red, blue, devices, timers, sample, cb, lcd_clear,
                   uart_tx, tick_ev, cb_ev>>

\* the line built by _uart_send, line 225
UartLine == <<state, Fmt1(temp_f), setpoint_f>>

\* UartTick without the isnan test of line 257
UartTick_NoNanTest ==
    /\ pc = "uart"
    /\ IF now - last_uart >= UART_PERIOD
       THEN /\ last_uart' = now
            /\ IF ser = "absent"
               THEN UNCHANGED uart_tx
               ELSE \/ uart_tx' = UartLine
                    \/ UNCHANGED uart_tx
       ELSE UNCHANGED <<last_uart, uart_tx>>
    /\ pc' = "sleep"
    /\ lcd_tx' = << >>
    /\ UNCHANGED <<shared, red, blue, devices, last_alt, alt_flag, now, sample,
                   exc, cb, lcd_clear, tick_ev, cb_ev>>

\* UartTick that advances _last_uart only after a write that succeeded
UartTick_StampOnSuccess ==
    /\ pc = "uart"
    /\ IF now - last_uart >= UART_PERIOD /\ temp_kind # "nan"
       THEN IF ser = "absent"
            THEN UNCHANGED <<last_uart, uart_tx>>
            ELSE \/ uart_tx' = UartLine /\ last_uart' = now
                 \/ UNCHANGED <<last_uart, uart_tx>>
       ELSE UNCHANGED <<last_uart, uart_tx>>
    /\ pc' = "sleep"
    /\ lcd_tx' = << >>
    /\ UNCHANGED <<shared, red, blue, devices, last_alt, alt_flag, now, sample,
                   exc, cb, lcd_clear, tick_ev, cb_ev>>

\* lines 257-259 with _uart_send: a failed write is caught and logged; the
\* line written to the display is of no further use
UartTick ==
    /\ pc = "uart"
    /\ IF now - last_uart >= UART_PERIOD /\ temp_kind # "nan"
       THEN /\ last_uart' = now
            /\ IF ser = "absent"
               THEN UNCHANGED uart_tx
               ELSE \/ uart_tx' = UartLine
                    \/ UNCHANGED uart_tx
       ELSE UNCHANGED <<last_uart, uart_tx>>
    /\ pc' = "sleep"
    /\ lcd_tx' = << >>
    /\ UNCHANGED <<shared, red, blue, devices, last_alt, alt_flag, now, sample,
                   exc, cb, lcd_clear, tick_ev, cb_ev>>

\* line 261: sleep, then the next iteration; temp_f and the line sent in
\* this tick are dead from here on
Sleep ==
    /\ pc = "sleep"
    /\ pc' = "read"
    /\ temp_kind' = "unset"
    /\ temp_f' = 0
    /\ uart_tx' = << >>
    /\ UNCHANGED <<shared, red, blue, devices, timers, exc, cb, lcd_tx, lcd_clear,
                   tick_ev, cb_ev>>

\* lines 262-263: KeyboardInterrupt raised in the main thread at any point
\* of the while loop; the locals of the loop are dead from here on
Interrupt ==
    /\ pc \in RunningPcs
    /\ exc' = "KeyboardInterrupt"
    /\ pc' = "f266r"
    /\ temp_kind' = "unset"
    /\ temp_f' = 0
    /\ lcd_tx' = << >>
    /\ uart_tx' = << >>
    /\ tick_ev' = FALSE
    /\ UNCHANGED <<shared, red, blue, devices, timers, cb, lcd_clear, cb_ev>>

\* line 266: self.red.stop(); self.blue.stop()
CleanStopRed ==
    /\ pc = "f266r"
    /\ red' = Stop(red)
    /\ pc' = "f266b"
    /\ LoopWrites
    /\ UNCHANGED <<shared, blue, devices, timers, sample, exc, cb, outputs, tick_ev>>

CleanStopBlue ==
    /\ pc = "f266b"
    /\ blue' = Stop(blue)
    /\ pc' = "f267r"
    /\ LoopWrites
    /\ UNCHANGED <<shared, red, devices, timers, sample, exc, cb, outputs, tick_ev>>

\* line 267: self.red.off(); self.blue.off()
CleanOffRed ==
    /\ pc = "f267r"
    /\ red' = SwitchOff(red)
    /\ pc' = "f267b"
    /\ LoopWrites
    /\ UNCHANGED <<shared, blue, devices, timers, sample, exc, cb, outputs, tick_ev>>

CleanOffBlue ==
    /\ pc = "f267b"
    /\ blue' = SwitchOff(blue)
    /\ pc' = "f268"
    /\ LoopWrites
    /\ UNCHANGED <<shared, red, devices, timers, sample, exc, cb, outputs, tick_ev>>

\* lines 268-272: clear the display; a failure is swallowed
CleanLcd ==
    /\ pc = "f268"
    /\ IF lcd
       THEN \/ lcd_clear' = TRUE
            \/ UNCHANGED lcd_clear
       ELSE UNCHANGED lcd_clear
    /\ pc' = "f273"
    /\ UNCHANGED <<shared, red, blue, devices, timers, sample, exc, cb, lcd_tx,
                   uart_tx, tick_ev, cb_ev>>

\* lines 273-277: close the sensor bus; a failure is swallowed
CleanBus ==
    /\ pc = "f273"
    /\ \/ bus' = "closed"
       \/ UNCHANGED bus
    /\ pc' = "f278"
    /\ UNCHANGED <<shared, red, blue, lcd, ser, timers, sample, exc, cb, outputs,
                   tick_ev, cb_ev>>

\* lines 278-283: close the transport; a failure is swallowed; run returns
CleanSer ==
    /\ pc = "f278"
    /\ IF ser = "open"
       THEN \/ ser' = "closed"
            \/ UNCHANGED ser
       ELSE UNCHANGED ser
    /\ pc' = "exited"
    /\ UNCHANGED <<shared, red, blue, lcd, bus, timers, sample, exc, cb, outputs,
                   tick_ev, cb_ev>>

\* ---- callback thread --------------------------------------------------
\* bookkeeping shared by every step of the callback thread
CbSteps == tick_ev' = (pc \in ApplyPcs \cup {"clock"})

\* NextIdx with the modulus one too small
NextIdx_ShortWrap(i) == (i + 1) % (Len(STATE_ORDER) - 1)

\* line 143: the index that follows i in STATE_ORDER, wrapping around
NextIdx(i) == (i + 1) % Len(STATE_ORDER)

\* line 143: the mode button fires, state_idx advances cyclically
CycleMode ==
    /\ cb = "idle"
    /\ pc # "exited"
    /\ state_idx' = NextIdx(state_idx)
    /\ cb' = "c146r"
    /\ cb_ev' = "clean"
    /\ CbSteps
    /\ UNCHANGED <<setpoint_f, red, blue, devices, timers, sample, pc, exc, outputs>>

\* line 146, first statement: self.red.stop()
CbStopRed ==
    /\ cb = "c146r"
    /\ red' = Stop(red)
    /\ cb' = "c146b"
    /\ CbSteps
    /\ UNCHANGED <<shared, blue, devices, timers, sample, pc, exc, outputs, cb_ev>>

\* line 146, second statement, and the dispatch of _apply_outputs(None) on
\* self.state (lines 171-176), which only this thread changes
CbStopBlue ==
    /\ cb = "c146b"
    /\ blue' = Stop(blue)
    /\ cb' = IF state = HEAT THEN "c173r" ELSE IF state = COOL THEN "c175b" ELSE "c177r"
    /\ CbSteps
    /\ UNCHANGED <<shared, red, devices, timers, sample, pc, exc, outputs, cb_ev>>

\* CbHeatRed that starts a pulse instead of the solid level
CbHeatRed_Pulse ==
    /\ cb = "c173r"
    /\ red' = Pulse(red)
    /\ cb' = "c173b"
    /\ CbSteps
    /\ UNCHANGED <<shared, blue, devices, timers, sample, pc, exc, outputs, cb_ev>>

\* line 173: self.red.value = 1.0; self.blue.off()
CbHeatRed ==
    /\ cb = "c173r"
    /\ red' = SetFull(red)
    /\ cb' = "c173b"
    /\ CbSteps
    /\ UNCHANGED <<shared, blue, devices, timers, sample, pc, exc, outputs, cb_ev>>

CbHeatBlue ==
    /\ cb = "c173b"
    /\ blue' = SwitchOff(blue)
    /\ cb' = "c178"
    /\ CbSteps
    /\ UNCHANGED <<shared, red, devices, timers, sample, pc, exc, outputs, cb_ev>>

\* line 175: self.blue.value = 1.0; self.red.off()
CbCoolBlue ==
    /\ cb = "c175b"
    /\ blue' = SetFull(blue)
    /\ cb' = "c175r"
    /\ CbSteps
    /\ UNCHANGED <<shared, red, devices, timers, sample, pc, exc, outputs, cb_ev>>

CbCoolRed ==
    /\ cb = "c175r"
    /\ red' = SwitchOff(red)
    /\ cb' = "c178"
    /\ CbSteps
    /\ UNCHANGED <<shared, blue, devices, timers, sample, pc, exc, outputs, cb_ev>>

\* line 177: self.red.off(); self.blue.off()
CbOffRed ==
    /\ cb = "c177r"
    /\ red' = SwitchOff(red)
    /\ cb' = "c177b"
    /\ CbSteps
    /\ UNCHANGED <<shared, blue, devices, timers, sample, pc, exc, outputs, cb_ev>>

CbOffBlue ==
    /\ cb = "c177b"
    /\ blue' = SwitchOff(blue)
    /\ cb' = "c178"
    /\ CbSteps
    /\ UNCHANGED <<shared, red, devices, timers, sample, pc, exc, outputs, cb_ev>>

\* line 178: return from _apply_outputs(None) and from _cycle_mode
CbReturn ==
    /\ cb = "c178"
    /\ cb' = "idle"
    /\ cb_ev' = "none"
    /\ CbSteps
    /\ UNCHANGED <<shared, red, blue, devices, timers, sample, pc, exc, outputs>>

\* SpInc that clamps the setpoint at an upper limit
SpInc_Clamped(s) == IF s >= SETPOINT_F_DEFAULT + 3 THEN s ELSE s + 1

\* line 150: self.setpoint_f += 1
SpInc(s) == s + 1

\* line 154: self.setpoint_f -= 1
SpDec(s) == s - 1

\* SpUp that also switches the display to its other line at once
SpUp_ResetPhase ==
    /\ cb = "idle"
    /\ pc # "exited"
    /\ setpoint_f < SETPOINT_F_DEFAULT + MaxSpUp
    /\ setpoint_f' = SpInc(setpoint_f)
    /\ alt_flag' = TRUE
    /\ CbSteps
    /\ UNCHANGED <<state_idx, red, blue, devices, last_uart, last_alt, now,
                   sample, pc, exc, cb, outputs, cb_ev>>

\* lines 149-151: the up button fires
SpUp ==
    /\ cb = "idle"
    /\ pc # "exited"
    /\ setpoint_f < SETPOINT_F_DEFAULT + MaxSpUp
    /\ setpoint_f' = SpInc(setpoint_f)
    /\ CbSteps
    /\ UNCHANGED <<state_idx, red, blue, devices, timers, sample, pc, exc, cb,
                   outputs, cb_ev>>

\* lines 153-155: the down button fires
SpDown ==
    /\ cb = "idle"
    /\ pc # "exited"
    /\ setpoint_f > SETPOINT_F_DEFAULT
    /\ setpoint_f' = SpDec(setpoint_f)
    /\ CbSteps
    /\ UNCHANGED <<state_idx, red, blue, devices, timers, sample, pc, exc, cb,
                   outputs, cb_ev>>

Next ==
    \/ ReadSensor
    \/ ApplyStopRed
    \/ ApplyStopBlue
    \/ ApplyTestHeat
    \/ ApplyHeatBlueOff
    \/ ApplyHeatRed
    \/ ApplyTestCool
    \/ ApplyCoolRedOff
    \/ ApplyCoolBlue
    \/ ApplyOffRed
    \/ ApplyOffBlue
    \/ AltCheck
    \/ UpdateLcd
    \/ UartTick
    \/ Sleep
    \/ Interrupt
    \/ CleanStopRed
    \/ CleanStopBlue
    \/ CleanOffRed
    \/ CleanOffBlue
    \/ CleanLcd
    \/ CleanBus
    \/ CleanSer
    \/ CycleMode
    \/ CbStopRed
    \/ CbStopBlue
    \/ CbHeatRed
    \/ CbHeatBlue
    \/ CbCoolBlue
    \/ CbCoolRed
    \/ CbOffRed
    \/ CbOffBlue
    \/ CbReturn
    \/ SpUp
    \/ SpDown

Spec == Init /\ [][Next]_vars

\* ---- properties -------------------------------------------------------
\* the main thread takes a step
LoopStep == pc' # pc
\* the callback thread takes a step in which an event handler is running
HandlerStep == pc' = pc /\ vars' # vars
\* _apply_outputs(temp_f) of this tick has returned and no handler step ran
\* since it began
FullApplyDone == pc = "clock" /\ temp_kind = "ok" /\ ~tick_ev
\* _apply_outputs(None) is returning and the main thread wrote no channel
\* since _cycle_mode began
ReducedApplyDone == cb = "c178" /\ cb_ev = "clean"

\* C1: in every reachable state the heat and cool channels are mutually
\* exclusive: if one is in SolidOn or Fade, the other is Off.
C1_MutuallyExclusive ==
    /\ On(red) => blue = "Off"
    /\ On(blue) => red = "Off"

\* C2: in every reachable state with Mode = OFF, neither channel is in
\* SolidOn or Fade.
C2_OffMeansBothOff ==
    state = OFF => ~On(red) /\ ~On(blue)

\* C3: no event handler changes Mode, Setpoint or a channel between the first
\* actuator write of a tick's _apply_outputs and its last one.
C3_EventsBetweenTicks ==
    [][(pc \in ApplyPcs \ {"a181r"} /\ HandlerStep)
          => UNCHANGED <<state_idx, setpoint_f, red, blue>>]_vars

\* C4: after a full apply with no interleaved event and Mode = HEAT, cool is
\* Off and heat is Fade when Temperature < Setpoint, SolidOn otherwise.
C4_HeatIntent ==
    (FullApplyDone /\ state = HEAT)
       => /\ blue = "Off"
          /\ temp_f < setpoint_f * Q => red = "Fade"
          /\ temp_f >= setpoint_f * Q => red = "SolidOn"

\* C4 witness: a full apply in HEAT ended with Temperature = Setpoint.
C4_Witness ==
    FullApplyDone /\ state = HEAT /\ temp_f = setpoint_f * Q /\ red = "SolidOn"

\* C5: after a full apply with no interleaved event and Mode = COOL, heat is
\* Off and cool is Fade when Temperature > Setpoint, SolidOn otherwise.
C5_CoolIntent ==
    (FullApplyDone /\ state = COOL)
       => /\ red = "Off"
          /\ temp_f > setpoint_f * Q => blue = "Fade"
          /\ temp_f <= setpoint_f * Q => blue = "SolidOn"

\* C5 witness: a full apply in COOL ended with Temperature = Setpoint.
C5_Witness ==
    FullApplyDone /\ state = COOL /\ temp_f = setpoint_f * Q /\ blue = "SolidOn"

\* C6: with Mode = OFF both the full path and the reduced path of
\* _apply_outputs, run without interference, leave both channels Off.
C6_OffIntent ==
    ((FullApplyDone \/ ReducedApplyDone) /\ state = OFF)
       => red = "Off" /\ blue = "Off"

\* C6 witness: the reduced path returns in Mode OFF, with a setpoint other
\* than the default, while a tick holding a sample is under way.
C6_Witness ==
    /\ ReducedApplyDone
    /\ state = OFF
    /\ setpoint_f # SETPOINT_F_DEFAULT
    /\ temp_kind = "ok"
    /\ red = "Off"
    /\ blue = "Off"

\* C7: in a tick whose sensor read failed, no step of the loop writes a
\* channel, and the loop leaves Running only on KeyboardInterrupt.
C7_FailedReadTick ==
    [][(LoopStep /\ (temp_kind = "nan" \/ temp_kind' = "nan"))
          => /\ red' = red
             /\ blue' = blue
             /\ pc' \in RunningPcs \/ exc' = "KeyboardInterrupt"]_vars

\* C7 witness: a tick with a failed read has reached its sleep while the heat
\* channel is fading.
C7_Witness ==
    pc = "sleep" /\ temp_kind = "nan" /\ red = "Fade"

\* C8: the loop leaves Running only on the external shutdown signal.
C8_OnlyShutdownStops ==
    LoopState = "Stopping" => exc = "KeyboardInterrupt"

\* the display phase flips in this step
Flip == alt_flag' # alt_flag
\* the loop runs its elapsed-time check of the display phase
AltStep == pc = "clock" /\ pc' = "lcd"

\* C9 as claimed: the flag flips iff at least LCD_ALT_PERIOD elapsed since
\* the last flip, and two flips are never less than 4.0 s apart.
C9_Original ==
    [][/\ AltStep => (Flip <=> now' - last_alt >= LCD_ALT_PERIOD)
       /\ Flip => last_alt' = now'
       /\ (Flip /\ last_alt # 0) => now' - last_alt >= 2 * LCD_ALT_PERIOD]_vars

\* C9 amended: the flag flips iff at least LCD_ALT_PERIOD elapsed since the
\* last flip, only in the loop's check, the last-flip timestamp is set to the
\* tick's timestamp then and only then, so two flips are never less than
\* LCD_ALT_PERIOD (2.0 s) apart.
C9_AltPeriod ==
    [][/\ AltStep => (Flip <=> now' - last_alt >= LCD_ALT_PERIOD)
       /\ Flip => AltStep /\ last_alt' = now'
       /\ ~Flip => last_alt' = last_alt
       /\ Flip => now' - last_alt >= LCD_ALT_PERIOD]_vars

\* C9 witness: the flag has flipped twice, the second time exactly
\* LCD_ALT_PERIOD after the first.
C9_Witness ==
    /\ alt_flag = FALSE
    /\ last_alt = ClockStart + 1 + LCD_ALT_PERIOD
    /\ pc = "lcd"

\* the loop runs its telemetry check with a transport present
UartStep == pc = "uart" /\ pc' = "sleep" /\ ser = "open"
\* a line goes out on the transport in this step
Emitted == Len(uart_tx') > 0
\* the telemetry period has elapsed and this tick holds a sample
TelemetryDue == now - last_uart >= UART_PERIOD /\ temp_kind = "ok"

\* C10 as claimed: with a transport present a line is emitted on a tick iff
\* the period has elapsed and a sample was available, and the line carries
\* the current Mode and Setpoint.
C10_Original ==
    [][UartStep => /\ Emitted <=> TelemetryDue
                   /\ Emitted => uart_tx' = <<state, Fmt1(temp_f), setpoint_f>>]_vars

\* C10 amended: with a transport present a write is attempted (and the
\* last-sent timestamp set to the tick's timestamp) iff the period has elapsed
\* since the last attempt and a sample was available; a line is emitted only
\* on such an attempt and carries the current Mode and Setpoint.
C10_TelemetryAttempt ==
    [][UartStep => /\ last_uart' = now <=> TelemetryDue
                   /\ ~TelemetryDue => last_uart' = last_uart
                   /\ Emitted => TelemetryDue
                   /\ Emitted => uart_tx' = <<state, Fmt1(temp_f), setpoint_f>>]_vars

\* C10 witness: a line for Mode HEAT is on the transport after an earlier
\* tick went by without a sample.
C10_Witness ==
    /\ pc = "sleep"
    /\ Len(uart_tx) > 0
    /\ uart_tx[1] = HEAT
    /\ now > ClockStart + 1
    /\ last_uart = now

\* C11: a telemetry attempt, failed or not, is not fatal and sets the
\* last-sent timestamp to the tick's timestamp, and the timestamp moves only
\* when at least UART_PERIOD has elapsed since the attempt before.
C11_FailedSendNoRetry ==
    [][/\ (pc = "uart" /\ LoopStep)
            => pc' = "sleep" \/ exc' = "KeyboardInterrupt"
       /\ (pc = "uart" /\ pc' = "sleep" /\ TelemetryDue)
            => last_uart' = now /\ exc' = "none"
       /\ last_uart' # last_uart
            => now - last_uart >= UART_PERIOD /\ last_uart' = now]_vars

\* C11 witness: with a transport present a due tick holding a sample has sent
\* nothing (the write failed) and the timestamp is the tick's.
C11_Witness ==
    /\ pc = "sleep"
    /\ ser = "open"
    /\ temp_kind = "ok"
    /\ last_uart = now
    /\ Len(uart_tx) = 0

\* C12: the reduced path run by a mode cycle leaves the channels at the
\* solid levels of the new Mode alone, and the next full apply recomputes:
\* Mode HEAT, Setpoint 72, Temperature 65.0 gives heat Fade, cool Off.
C12_ModeCycleFeedback ==
    /\ ReducedApplyDone
         => /\ red = (IF state = HEAT THEN "SolidOn" ELSE "Off")
            /\ blue = (IF state = COOL THEN "SolidOn" ELSE "Off")
    /\ (FullApplyDone /\ state = HEAT /\ setpoint_f = 72 /\ Fmt1(temp_f) = 650)
         => red = "Fade" /\ blue = "Off"

\* C12 witness: the first mode cycle (OFF to HEAT, Setpoint 72) returns with
\* heat SolidOn and cool Off while the tick holds the sample 65.0 F.
C12_Witness ==
    /\ ReducedApplyDone
    /\ state = HEAT
    /\ setpoint_f = 72
    /\ red = "SolidOn"
    /\ blue = "Off"
    /\ temp_kind = "ok"
    /\ Fmt1(temp_f) = 650

\* C13: when cleanup completes (its last step is taken and run returns), both
\* channels are Off.
C13_CleanupLeavesOff ==
    [][(pc = "f278" /\ pc' = "exited") => red' = "Off" /\ blue' = "Off"]_vars

\* C14: Mode changes only by a mode-cycle event, which moves it one place
\* along OFF -> HEAT -> COOL -> OFF; three applications return to the
\* starting Mode and one or two never do.
C14_ModeCyclePermutation ==
    [][/\ NextIdx(NextIdx(NextIdx(state_idx))) = state_idx
       /\ NextIdx(state_idx) # state_idx
       /\ NextIdx(NextIdx(state_idx)) # state_idx
       /\ state_idx' # state_idx
            => /\ cb = "idle" /\ cb' = "c146r"
               /\ STATE_ORDER[state_idx' + 1] =
                    (IF state = OFF THEN HEAT ELSE IF state = HEAT THEN COOL ELSE OFF)
               /\ NextIdx(NextIdx(state_idx')) = state_idx]_vars

\* C14 witness: the third mode cycle has wrapped Mode from COOL back to OFF
\* and is about to switch the channels off.
C14_Witness ==
    cb = "c177r" /\ state = OFF /\ blue = "SolidOn"

\* C15: Setpoint changes only by an up or down event, by exactly 1 and
\* without clamping, and increment and decrement undo each other.
C15_SetpointInverse ==
    [][/\ SpDec(SpInc(setpoint_f)) = setpoint_f
       /\ SpInc(SpDec(setpoint_f)) = setpoint_f
       /\ SpInc(setpoint_f) = setpoint_f + 1
       /\ SpDec(setpoint_f) = setpoint_f - 1
       /\ setpoint_f' # setpoint_f
            => /\ HandlerStep
               /\ setpoint_f' = setpoint_f + 1 \/ setpoint_f' = setpoint_f - 1]_vars

\* C15 witness: increments have taken the setpoint MaxSpUp above the default
\* and a decrement has brought it one back.
C15_Witness ==
    setpoint_f = SETPOINT_F_DEFAULT + MaxSpUp - 1 /\ tick_ev /\ pc = "a185"

\* C16: on a tick with no temperature sample the display update is skipped:
\* the loop goes from the display step straight to the telemetry step, nothing
\* is written to the display (so no display write can fail either), and no
\* line has been written at any point of that tick.
C16_NoSampleSkipsDisplay ==
    [][/\ (pc = "lcd" /\ temp_kind = "nan" /\ LoopStep)
            => /\ pc' = "uart" \/ exc' = "KeyboardInterrupt"
               /\ lcd_tx' = lcd_tx
               /\ lcd_clear' = lcd_clear
       /\ temp_kind' = "nan" => Len(lcd_tx') = 0]_vars

\* C16 witness: a display is attached, the read failed, and the tick has
\* passed its display step without writing.
C16_Witness ==
    pc = "uart" /\ temp_kind = "nan" /\ lcd /\ Len(lcd_tx) = 0 /\ exc = "none"

\* C17: no step of the mode-cycle, setpoint-up or setpoint-down handler
\* changes the alternation flag, the last-flip timestamp or the telemetry
\* last-sent timestamp; the flag and the last-flip timestamp change only in
\* the loop's elapsed-time check, when the period has elapsed.
C17_HandlersKeepPhase ==
    [][/\ HandlerStep => UNCHANGED <<alt_flag, last_alt, last_uart>>
       /\ (alt_flag' # alt_flag \/ last_alt' # last_alt)
            => AltStep /\ now' - last_alt >= LCD_ALT_PERIOD]_vars

\* C17 witness: a mode cycle has run and the setpoint was raised while the
\* display was in its flipped phase, and the phase is still the one set by
\* this tick's elapsed-time check.
C17_Witness ==
    /\ pc = "lcd" /\ cb = "c178" /\ setpoint_f > SETPOINT_F_DEFAULT
    /\ alt_flag /\ last_alt = now

\* the channel pair <<heat, cool>> that lines 183-196 compute from Mode m,
\* Setpoint sp and scaled Temperature t
ApplyResult(m, sp, t) ==
    IF m = HEAT THEN <<IF t < sp * Q THEN "Fade" ELSE "SolidOn", "Off">>
    ELSE IF m = COOL THEN <<"Off", IF t > sp * Q THEN "Fade" ELSE "SolidOn">>
    ELSE <<"Off", "Off">>

\* C18: an apply first cancels any fade on each channel, whatever state the
\* channel was in, and (with no event interleaved) ends with the channel pair
\* a function of (Mode, Setpoint, Temperature) alone, so the prior state does
\* not matter and a second apply of the same inputs gives the same pair.
C18_StopBeforeStartIdempotent ==
    /\ (pc \in {"a181b", "a183"} /\ ~tick_ev) => red # "Fade"
    /\ (pc = "a183" /\ ~tick_ev) => blue # "Fade"
    /\ FullApplyDone => <<red, blue>> = ApplyResult(state, setpoint_f, temp_f)

\* C18 witness: an apply that began with the heat channel fading has
\* cancelled the fade on both channels and not yet started anything.
C18_Witness ==
    pc = "a183" /\ ~tick_ev /\ red = "Held" /\ blue # "Fade"

\* C19: whatever the callbacks did before, a tick whose read succeeded and
\* during whose apply no handler step ran, with no handler in progress, ends
\* its apply with both channels equal to the thermostat function of the
\* current (Mode, Setpoint, Temperature); the rest of the tick leaves the
\* channels alone, and the loop itself never changes Mode or Setpoint, so
\* every later such tick ends the same way.
C19_Convergence ==
    /\ []((FullApplyDone /\ cb = "idle")
            => <<red, blue>> = ApplyResult(state, setpoint_f, temp_f))
    /\ [][LoopStep
            => /\ UNCHANGED <<state_idx, setpoint_f>>
               /\ (pc \in {"clock", "lcd", "uart", "sleep"} /\ pc' \in RunningPcs)
                    => UNCHANGED <<red, blue>>]_vars

\* C19 witness: after a mode cycle to COOL and a setpoint change, with no
\* handler in progress, a later tick has re-applied and the cool channel is
\* solid on and the heat channel off.
C19_Witness ==
    /\ FullApplyDone /\ cb = "idle" /\ now > ClockStart
    /\ state = COOL /\ setpoint_f > SETPOINT_F_DEFAULT
    /\ red = "Off" /\ blue = "SolidOn"

\* C20: every tick that has a sample enters the apply, whether or not Mode,
\* Setpoint or the comparison changed, and the apply cancels the fades before
\* it starts one: when the apply (with no handler step interleaved) starts a
\* fade on a channel, that channel is not fading at that moment, so a channel
\* whose intent stays Fade has its fade started afresh on every such tick.
C20_FadeRestartsEachTick ==
    [][/\ (pc = "read" /\ LoopStep /\ temp_kind' = "ok") => pc' = "a181r"
       /\ (pc = "a185" /\ LoopStep /\ ~tick_ev /\ red' = "Fade") => red # "Fade"
       /\ (pc = "a191" /\ LoopStep /\ ~tick_ev /\ blue' = "Fade") => blue # "Fade"
       /\ (pc \in {"a181r", "a181b"} /\ LoopStep)
            => pc' \in {"a181b", "a183"} \/ exc' = "KeyboardInterrupt"]_vars

\* C20 witness: Mode is COOL with Temperature above Setpoint, the cool
\* channel's fade from the previous tick has been cancelled by this tick's
\* apply, and the apply is about to start it again.
C20_Witness ==
    /\ pc = "a191" /\ ~tick_ev /\ cb = "idle" /\ state = COOL
    /\ temp_f > setpoint_f * Q /\ blue = "Held" /\ red = "Off"

TypeOK ==
    /\ state_idx \in 0..2
    /\ red \in {"Off", "SolidOn", "Fade", "Held"}
    /\ blue \in {"Off", "SolidOn", "Fade", "Held"}
    /\ pc \in RunningPcs \cup CleanupPcs \cup {"exited"}
====
